---------------------------- MODULE Spec2Model ----------------------------
(***************************************************************************)
(* Resource metering and fee charging of linera-execution/src/resources.rs *)
(* as a state machine: a ResourceController (policy, tracker, account),    *)
(* its track_* operations, the two BalanceHolder implementations (a single *)
(* Amount and the Sources fallback list) and the composition of a Sources  *)
(* list by with_state / with_state_and_grant.                              *)
(*                                                                         *)
(* Integer widths are scaled down: U32Max, U64Max, AmountMax, I32Max stand *)
(* for u32::MAX, u64::MAX, Amount::MAX (u128) and i32::MAX.  Every checked *)
(* operation compares against these, every unchecked one wraps modulo      *)
(* width + 1, so overflow behaves as in the code at a size TLC can reach.  *)
(***************************************************************************)
EXTENDS Integers, Sequences, FiniteSets, TLC

(***************************************************************************)
(* Bounds of the model.                                                    *)
(***************************************************************************)
\* u32::MAX, scaled (read_operations, bytes_runtime, operations, ...).
U32Max == 63
\* u64::MAX and usize::MAX on a 64-bit target, scaled (fuel, bytes_read, ...).
U64Max == 127
\* Amount::MAX (a u128), scaled.
AmountMax == 255
\* i32::MAX, scaled (bytes_stored); i32::MIN is -(I32Max) - 1.
I32Max == 31
\* Duration ticks per millisecond (nanoseconds per millisecond in the code).
TicksPerMilli == 2
\* Number of controller calls explored from an initial state.
MaxCalls == 2
\* Longest Sources list drawn for the BalanceHolder specification.
MaxSources == 3
\* Largest single source amount drawn for the BalanceHolder specification.
MaxSourceAmount == 3

I32Min == -(I32Max) - 1
\* Duration::MAX: u64::MAX seconds and 999_999_999 ns, in ticks.
DurationMax == (U64Max + 1) * 1000 * TicksPerMilli - 1

(***************************************************************************)
(* Program constants.                                                      *)
(***************************************************************************)
RUNTIME_AMOUNT_SIZE == 16
RUNTIME_APPLICATION_ID_SIZE == 32
RUNTIME_BLOCK_HEIGHT_SIZE == 8
RUNTIME_CHAIN_ID_SIZE == 32
RUNTIME_TIMESTAMP_SIZE == 8
RUNTIME_OWNER_WEIGHT_SIZE == 8
RUNTIME_CONSTANT_CHAIN_OWNERSHIP_SIZE == 4 + 4 * 8

(***************************************************************************)
(* Amount arithmetic (linera_base::data_types::Amount): checked addition,  *)
(* subtraction and multiplication.  Overflow is the value -1: a            *)
(* Result<Amount, ArithmeticError> is an amount or the error.              *)
(***************************************************************************)
Overflow == 0 - 1

Amounts == 0..AmountMax

\* Amount::try_add
TryAdd(a, b) == IF a + b > AmountMax THEN Overflow ELSE a + b

\* Amount::try_mul
TryMul(a, n) == IF a * n > AmountMax THEN Overflow ELSE a * n

Min(a, b) == IF a <= b THEN a ELSE b

RECURSIVE SumSeq(_)
SumSeq(s) == IF s = <<>> THEN 0 ELSE Head(s) + SumSeq(Tail(s))

(***************************************************************************)
(* ResourceControlPolicy (crate::policy, an external collaborator of this  *)
(* file): flat fees, unit prices and per-block maxima.  Prices are the     *)
(* unit price times the quantity, overflow-checked in Amount.              *)
(***************************************************************************)
VmRuntimes == {"Wasm", "Evm"}

\* Fees and unit prices all zero, every maximum at its type's largest value.
NoFeesPolicy ==
    [ wasm_fuel_unit |-> 0, evm_fuel_unit |-> 0,
      read_operation |-> 0, write_operation |-> 0,
      byte_runtime |-> 0, byte_read |-> 0, byte_written |-> 0,
      blob_read |-> 0, blob_published |-> 0,
      blob_byte_read |-> 0, blob_byte_published |-> 0,
      operation |-> 0, operation_byte |-> 0,
      message |-> 0, message_byte |-> 0,
      service_as_oracle_query |-> 0, http_request |-> 0,
      maximum_wasm_fuel_per_block |-> U64Max,
      maximum_evm_fuel_per_block |-> U64Max,
      maximum_service_oracle_execution_ms |-> U64Max,
      maximum_block_size |-> U64Max,
      maximum_blob_size |-> U64Max,
      maximum_bytes_read_per_block |-> U64Max,
      maximum_bytes_written_per_block |-> U64Max,
      maximum_oracle_response_bytes |-> U64Max ]

\* Pairwise different fees and unit prices, and small pairwise different maxima.
PricedPolicy ==
    [ wasm_fuel_unit |-> 1, evm_fuel_unit |-> 2,
      read_operation |-> 2, write_operation |-> 3,
      byte_runtime |-> 1, byte_read |-> 2, byte_written |-> 3,
      blob_read |-> 1, blob_published |-> 2,
      blob_byte_read |-> 2, blob_byte_published |-> 1,
      operation |-> 1, operation_byte |-> 2,
      message |-> 2, message_byte |-> 1,
      service_as_oracle_query |-> 3, http_request |-> 4,
      maximum_wasm_fuel_per_block |-> 3,
      maximum_evm_fuel_per_block |-> 2,
      maximum_service_oracle_execution_ms |-> 3,
      maximum_block_size |-> 3,
      maximum_blob_size |-> 3,
      maximum_bytes_read_per_block |-> 3,
      maximum_bytes_written_per_block |-> 2,
      maximum_oracle_response_bytes |-> 2 ]

\* The priced fees with the maxima out of reach.
PricedUncappedPolicy ==
    [ PricedPolicy EXCEPT !.maximum_wasm_fuel_per_block = U64Max,
                          !.maximum_evm_fuel_per_block = U64Max,
                          !.maximum_service_oracle_execution_ms = U64Max,
                          !.maximum_block_size = U64Max,
                          !.maximum_blob_size = U64Max,
                          !.maximum_bytes_read_per_block = U64Max,
                          !.maximum_bytes_written_per_block = U64Max,
                          !.maximum_oracle_response_bytes = U64Max ]

Policies == {NoFeesPolicy, PricedPolicy, PricedUncappedPolicy}

\* ResourceControlPolicy::maximum_fuel_per_block
maximum_fuel_per_block(p, vm) ==
    IF vm = "Wasm" THEN p.maximum_wasm_fuel_per_block
                   ELSE p.maximum_evm_fuel_per_block

\* The fuel unit price of a VM runtime.
fuel_unit(p, vm) == IF vm = "Wasm" THEN p.wasm_fuel_unit ELSE p.evm_fuel_unit

\* ResourceControlPolicy::fuel_price
fuel_price(p, fuel, vm) == TryMul(fuel_unit(p, vm), fuel)

\* ResourceControlPolicy::remaining_fuel: balance.saturating_div(unit), as a u64.
policy_remaining_fuel(p, balance, vm) ==
    IF fuel_unit(p, vm) = 0 THEN U64Max
    ELSE Min(balance \div fuel_unit(p, vm), U64Max)

operation_bytes_price(p, size) == TryMul(p.operation_byte, size)
message_bytes_price(p, size) == TryMul(p.message_byte, size)
bytes_runtime_price(p, size) == TryMul(p.byte_runtime, size)
read_operations_price(p, count) == TryMul(p.read_operation, count)
write_operations_price(p, count) == TryMul(p.write_operation, count)
bytes_read_price(p, count) == TryMul(p.byte_read, count)
bytes_written_price(p, count) == TryMul(p.byte_written, count)

\* ResourceControlPolicy::blob_read_price: per-byte price plus the flat fee.
blob_read_price(p, count) ==
    IF TryMul(p.blob_byte_read, count) = Overflow THEN Overflow
    ELSE TryAdd(TryMul(p.blob_byte_read, count), p.blob_read)

\* ResourceControlPolicy::blob_published_price
blob_published_price(p, count) ==
    IF TryMul(p.blob_byte_published, count) = Overflow THEN Overflow
    ELSE TryAdd(TryMul(p.blob_byte_published, count), p.blob_published)

\* ResourceControlPolicy::check_blob_size: the blob's size against the maximum.
check_blob_size(p, size) == size <= p.maximum_blob_size

(***************************************************************************)
(* ResourceTracker: the counters, all zero by Default.                     *)
(***************************************************************************)
DefaultTracker ==
    [ block_size |-> 0, evm_fuel |-> 0, wasm_fuel |-> 0,
      read_operations |-> 0, write_operations |-> 0, bytes_runtime |-> 0,
      bytes_read |-> 0, bytes_written |-> 0,
      blobs_read |-> 0, blobs_published |-> 0,
      blob_bytes_read |-> 0, blob_bytes_published |-> 0,
      bytes_stored |-> 0,
      operations |-> 0, operation_bytes |-> 0,
      messages |-> 0, message_bytes |-> 0,
      http_requests |-> 0, service_oracle_queries |-> 0,
      service_oracle_execution |-> 0, grants |-> 0 ]

CounterNames == DOMAIN DefaultTracker

\* The largest value of each counter's type.
CounterMax ==
    [ block_size |-> U64Max, evm_fuel |-> U64Max, wasm_fuel |-> U64Max,
      read_operations |-> U32Max, write_operations |-> U32Max,
      bytes_runtime |-> U32Max,
      bytes_read |-> U64Max, bytes_written |-> U64Max,
      blobs_read |-> U32Max, blobs_published |-> U32Max,
      blob_bytes_read |-> U64Max, blob_bytes_published |-> U64Max,
      bytes_stored |-> I32Max,
      operations |-> U32Max, operation_bytes |-> U64Max,
      messages |-> U32Max, message_bytes |-> U64Max,
      http_requests |-> U32Max, service_oracle_queries |-> U32Max,
      service_oracle_execution |-> DurationMax, grants |-> AmountMax ]

\* ResourceTracker::fuel
fuel(t, vm_runtime) == IF vm_runtime = "Wasm" THEN t.wasm_fuel ELSE t.evm_fuel

\* The name of the fuel counter of a VM runtime.
FuelCounter(vm_runtime) == IF vm_runtime = "Wasm" THEN "wasm_fuel" ELSE "evm_fuel"

(***************************************************************************)
(* BalanceHolder.  An account is the list of the amounts it holds: one     *)
(* amount for a single Amount, the amounts behind the references of a      *)
(* Sources in their order.  Each method returns the list after the call    *)
(* and the call's result.                                                  *)
(***************************************************************************)
\* impl BalanceHolder for Amount: balance
AmountBalance(list) == list[1]

\* impl BalanceHolder for Amount: try_add_assign (checked; unchanged on error)
AmountTryAddAssign(list, other) ==
    IF TryAdd(list[1], other) = Overflow
    THEN [list |-> list, res |-> "Overflow"]
    ELSE [list |-> <<list[1] + other>>, res |-> "Ok"]

\* Mutant of the Amount's try_sub_assign: a failed debit takes what there is.
AmountTrySubAssignDrain(list, other) ==
    IF list[1] < other
    THEN [list |-> <<0>>, res |-> "Underflow"]
    ELSE [list |-> <<list[1] - other>>, res |-> "Ok"]

\* impl BalanceHolder for Amount: try_sub_assign (checked; unchanged on error)
AmountTrySubAssign(list, other) ==
    IF list[1] < other
    THEN [list |-> list, res |-> "Underflow"]
    ELSE [list |-> <<list[1] - other>>, res |-> "Ok"]

\* Sources::balance: the checked sum of the sources.
SourcesBalance(list) ==
    IF SumSeq(list) > AmountMax THEN Overflow ELSE SumSeq(list)

\* Mutant of Sources::try_add_assign: the first source is credited.
SourcesTryAddAssignFirst(list, other) ==
    IF list = <<>> THEN [list |-> list, res |-> "Panic"]
    ELSE IF TryAdd(list[1], other) = Overflow
    THEN [list |-> list, res |-> "Overflow"]
    ELSE [list |-> [list EXCEPT ![1] = @ + other], res |-> "Ok"]

\* Sources::try_add_assign: credits the last source; panics on an empty list.
SourcesTryAddAssign(list, other) ==
    IF list = <<>> THEN [list |-> list, res |-> "Panic"]
    ELSE IF TryAdd(list[Len(list)], other) = Overflow
    THEN [list |-> list, res |-> "Overflow"]
    ELSE [list |-> [list EXCEPT ![Len(list)] = @ + other], res |-> "Ok"]

\* Mutant of Sources::try_sub_assign: the amount still owed is not reduced by
\* what a drained source gave.
RECURSIVE SourcesTrySubAssignNoCarry(_, _)
SourcesTrySubAssignNoCarry(list, other) ==
    IF list = <<>>
    THEN [list |-> list, res |-> IF other > 0 THEN "Underflow" ELSE "Ok"]
    ELSE IF Head(list) >= other
    THEN [list |-> <<Head(list) - other>> \o Tail(list), res |-> "Ok"]
    ELSE LET rest == SourcesTrySubAssignNoCarry(Tail(list), other)
         IN  [list |-> <<0>> \o rest.list, res |-> rest.res]

\* Mutant of Sources::try_sub_assign: a debit that fails gives back what it took.
RECURSIVE SourcesTrySubAssignRefund(_, _)
SourcesTrySubAssignRefund(list, other) ==
    IF SumSeq(list) < other THEN [list |-> list, res |-> "Underflow"]
    ELSE IF list = <<>> THEN [list |-> list, res |-> "Ok"]
    ELSE IF Head(list) >= other
    THEN [list |-> <<Head(list) - other>> \o Tail(list), res |-> "Ok"]
    ELSE LET rest == SourcesTrySubAssignRefund(Tail(list), other - Head(list))
         IN  [list |-> <<0>> \o rest.list, res |-> rest.res]

\* Sources::try_sub_assign: the loop over the sources, front to back.
RECURSIVE SourcesTrySubAssign(_, _)
SourcesTrySubAssign(list, other) ==
    IF list = <<>>
    THEN [list |-> list, res |-> IF other > 0 THEN "Underflow" ELSE "Ok"]
    ELSE IF Head(list) >= other
    THEN [list |-> <<Head(list) - other>> \o Tail(list), res |-> "Ok"]
    ELSE LET rest == SourcesTrySubAssign(Tail(list), other - Head(list))
         IN  [list |-> <<0>> \o rest.list, res |-> rest.res]

\* The account's methods, by the account's type.
HolderBalance(kind, list) ==
    IF kind = "Amount" THEN AmountBalance(list) ELSE SourcesBalance(list)

HolderTryAddAssign(kind, list, other) ==
    IF kind = "Amount" THEN AmountTryAddAssign(list, other)
                       ELSE SourcesTryAddAssign(list, other)

HolderTrySubAssign(kind, list, other) ==
    IF kind = "Amount" THEN AmountTrySubAssign(list, other)
                       ELSE SourcesTrySubAssign(list, other)

\* ResourceController::balance
controller_balance(kind, list) == HolderBalance(kind, list)

\* self.balance().unwrap_or(Amount::MAX)
BalanceOrMax(kind, list) ==
    IF controller_balance(kind, list) = Overflow THEN AmountMax
    ELSE controller_balance(kind, list)

(***************************************************************************)
(* A call in progress: the tracker t and the account a (of type kind) as   *)
(* the call has left them so far, and its result res: "Ok" while the call  *)
(* runs on, an error once a `?`, an ensure! or a return Err has ended it.  *)
(* A step of a call that has ended changes nothing.  fees and balance are  *)
(* the fields of FeesExceedFunding.                                        *)
(***************************************************************************)
Call(kind, t, a) ==
    [kind |-> kind, t |-> t, a |-> a, res |-> "Ok", fees |-> 0, balance |-> 0]

Fail(c, err) == IF c.res = "Ok" THEN [c EXCEPT !.res = err] ELSE c

\* Mutant of the checked addition: the sum wraps around the counter's width.
CheckedAddWrapping(c, counter, n, err) ==
    IF c.res # "Ok" THEN c
    ELSE [c EXCEPT !.t[counter] = (@ + n) % (CounterMax[counter] + 1)]

\* counter = counter.checked_add(n).ok_or(err)?
CheckedAdd(c, counter, n, err) ==
    IF c.res # "Ok" THEN c
    ELSE IF c.t[counter] + n > CounterMax[counter] THEN Fail(c, err)
    ELSE [c EXCEPT !.t[counter] = @ + n]

\* ensure!(cond, err), and `if !cond { return Err(err) }`
Ensure(c, cond, err) == IF c.res = "Ok" /\ ~cond THEN Fail(c, err) ELSE c

\* ResourceController::update_balance
update_balance(c, fees) ==
    IF c.res # "Ok" THEN c
    ELSE LET r == HolderTrySubAssign(c.kind, c.a, fees)
         IN  IF r.res = "Ok" THEN [c EXCEPT !.a = r.list]
             ELSE [c EXCEPT !.a = r.list,
                            !.res = "FeesExceedFunding",
                            !.fees = fees,
                            !.balance = BalanceOrMax(c.kind, r.list)]

\* self.update_balance(self.policy.<price>(..)?): the price may have overflowed.
ChargePrice(c, price) ==
    IF c.res # "Ok" THEN c
    ELSE IF price = Overflow THEN Fail(c, "Overflow")
    ELSE update_balance(c, price)

\* Mutant of merge_balance: the credit is `other`, not the difference.
merge_balance_credit_other(c, initial, other) ==
    IF other <= initial
    THEN LET sub_amount == initial - other
             r == HolderTrySubAssign(c.kind, c.a, sub_amount)
         IN  IF r.res = "Ok" THEN [c EXCEPT !.a = r.list]
             ELSE [c EXCEPT !.a = r.list,
                            !.res = "FeesExceedFunding",
                            !.fees = sub_amount,
                            !.balance = BalanceOrMax(c.kind, r.list)]
    ELSE LET r == HolderTryAddAssign(c.kind, c.a, other)
         IN  [c EXCEPT !.a = r.list, !.res = r.res]

\* ResourceController::merge_balance
merge_balance(c, initial, other) ==
    IF other <= initial
    THEN LET sub_amount == initial - other
             r == HolderTrySubAssign(c.kind, c.a, sub_amount)
         IN  IF r.res = "Ok" THEN [c EXCEPT !.a = r.list]
             ELSE [c EXCEPT !.a = r.list,
                            !.res = "FeesExceedFunding",
                            !.fees = sub_amount,
                            !.balance = BalanceOrMax(c.kind, r.list)]
    ELSE LET r == HolderTryAddAssign(c.kind, c.a, other - initial)
         IN  [c EXCEPT !.a = r.list, !.res = r.res]

\* Mutant of remaining_fuel: the fuel already tracked is not taken off the
\* maximum.
remaining_fuel_whole_budget(p, kind, t, a, vm_runtime) ==
    Min(policy_remaining_fuel(p, BalanceOrMax(kind, a), vm_runtime),
        maximum_fuel_per_block(p, vm_runtime))

\* Mutant of remaining_fuel: the per-block maximum is ignored.
remaining_fuel_balance_only(p, kind, t, a, vm_runtime) ==
    policy_remaining_fuel(p, BalanceOrMax(kind, a), vm_runtime)

\* ResourceController::remaining_fuel
remaining_fuel(p, kind, t, a, vm_runtime) ==
    LET balance == BalanceOrMax(kind, a)
        used == fuel(t, vm_runtime)
        maximum == maximum_fuel_per_block(p, vm_runtime)
        budget == IF maximum >= used THEN maximum - used ELSE 0
    IN  Min(policy_remaining_fuel(p, balance, vm_runtime), budget)

(***************************************************************************)
(* The track_* operations of ResourceController.  p is the policy, c the   *)
(* call in progress; each returns the call as the operation leaves it.     *)
(***************************************************************************)
\* ResourceController::track_grant
track_grant(c, grant) ==
    update_balance(CheckedAdd(c, "grants", grant, "Overflow"), grant)

\* Mutant of track_operation: the flat fee is debited before the operation is
\* counted.
track_operation_charge_first(p, c, user, size) ==
    LET c1 == update_balance(c, p.operation)
        c2 == CheckedAdd(c1, "operations", 1, "Overflow")
        c3 == CheckedAdd(c2, "operation_bytes", size, "Overflow")
        c4 == ChargePrice(c3, operation_bytes_price(p, size))
    IN  IF user THEN c4 ELSE c2

\* ResourceController::track_operation.  user: Operation::User with `size` bytes.
track_operation(p, c, user, size) ==
    LET c1 == CheckedAdd(c, "operations", 1, "Overflow")
        c2 == update_balance(c1, p.operation)
        c3 == CheckedAdd(c2, "operation_bytes", size, "Overflow")
        c4 == ChargePrice(c3, operation_bytes_price(p, size))
    IN  IF user THEN c4 ELSE c2

\* Mutant of track_message: the bytes of a user message are counted but not
\* charged.
track_message_free_bytes(p, c, user, size) ==
    LET c1 == CheckedAdd(c, "messages", 1, "Overflow")
        c2 == update_balance(c1, p.message)
        c3 == CheckedAdd(c2, "message_bytes", size, "Overflow")
    IN  IF user THEN c3 ELSE c2

\* ResourceController::track_message.  user: Message::User with `size` bytes.
track_message(p, c, user, size) ==
    LET c1 == CheckedAdd(c, "messages", 1, "Overflow")
        c2 == update_balance(c1, p.message)
        c3 == CheckedAdd(c2, "message_bytes", size, "Overflow")
        c4 == ChargePrice(c3, message_bytes_price(p, size))
    IN  IF user THEN c4 ELSE c2

\* ResourceController::track_http_request
track_http_request(p, c) ==
    update_balance(CheckedAdd(c, "http_requests", 1, "Overflow"), p.http_request)

\* Mutant of track_fuel: the EVM pool is compared with the Wasm maximum.
track_fuel_shared_cap(p, c, amount, vm_runtime) ==
    LET wasm1 == CheckedAdd(c, "wasm_fuel", amount, "Overflow")
        wasm2 == Ensure(wasm1,
                        wasm1.t.wasm_fuel <= p.maximum_wasm_fuel_per_block,
                        "MaximumFuelExceeded(Wasm)")
        evm1 == CheckedAdd(c, "evm_fuel", amount, "Overflow")
        evm2 == Ensure(evm1,
                       evm1.t.evm_fuel <= p.maximum_wasm_fuel_per_block,
                       "MaximumFuelExceeded(Evm)")
        c2 == IF vm_runtime = "Wasm" THEN wasm2 ELSE evm2
    IN  ChargePrice(c2, fuel_price(p, amount, vm_runtime))

\* Mutant of track_fuel: a pool equal to its maximum is refused.
track_fuel_inclusive_cap(p, c, amount, vm_runtime) ==
    LET c1 == CheckedAdd(c, FuelCounter(vm_runtime), amount, "Overflow")
        c2 == Ensure(c1, fuel(c1.t, vm_runtime)
                            < maximum_fuel_per_block(p, vm_runtime),
                     IF vm_runtime = "Wasm" THEN "MaximumFuelExceeded(Wasm)"
                                            ELSE "MaximumFuelExceeded(Evm)")
    IN  ChargePrice(c2, fuel_price(p, amount, vm_runtime))

\* ResourceController::track_fuel
track_fuel(p, c, amount, vm_runtime) ==
    LET wasm1 == CheckedAdd(c, "wasm_fuel", amount, "Overflow")
        wasm2 == Ensure(wasm1,
                        wasm1.t.wasm_fuel <= p.maximum_wasm_fuel_per_block,
                        "MaximumFuelExceeded(Wasm)")
        evm1 == CheckedAdd(c, "evm_fuel", amount, "Overflow")
        evm2 == Ensure(evm1,
                       evm1.t.evm_fuel <= p.maximum_evm_fuel_per_block,
                       "MaximumFuelExceeded(Evm)")
        c2 == IF vm_runtime = "Wasm" THEN wasm2 ELSE evm2
    IN  ChargePrice(c2, fuel_price(p, amount, vm_runtime))

\* ResourceController::track_size_runtime_operations
track_size_runtime_operations(p, c, size) ==
    ChargePrice(CheckedAdd(c, "bytes_runtime", size, "Overflow"),
                bytes_runtime_price(p, size))

track_runtime_chain_id(p, c) ==
    track_size_runtime_operations(p, c, RUNTIME_CHAIN_ID_SIZE)

track_runtime_block_height(p, c) ==
    track_size_runtime_operations(p, c, RUNTIME_BLOCK_HEIGHT_SIZE)

track_runtime_application_id(p, c) ==
    track_size_runtime_operations(p, c, RUNTIME_APPLICATION_ID_SIZE)

track_runtime_timestamp(p, c) ==
    track_size_runtime_operations(p, c, RUNTIME_TIMESTAMP_SIZE)

\* Mutant of track_runtime_balance: a balance is tracked with the size of a
\* timestamp.
track_runtime_balance_as_timestamp(p, c) ==
    track_size_runtime_operations(p, c, RUNTIME_TIMESTAMP_SIZE)

track_runtime_balance(p, c) ==
    track_size_runtime_operations(p, c, RUNTIME_AMOUNT_SIZE)

\* `len as u32`: the cast of a usize keeps the low 32 bits.
AsU32(n) == n % (U32Max + 1)

\* ResourceController::track_runtime_application_parameters; len = parameters.len()
track_runtime_application_parameters(p, c, len) ==
    track_size_runtime_operations(p, c, AsU32(len))

\* AccountOwner::size of the three kinds of owner: Reserved, Address20, Address32.
OwnerSizes == {1, 20, 32}

\* `size += x` over u32 values: the sum `total` of the terms is the result when
\* it fits; when it does not, a build with overflow checks panics and a build
\* without them wraps.  checks: whether the build has overflow checks.
UncheckedSum(total, checks) ==
    IF total <= U32Max THEN [size |-> total, res |-> "Ok"]
    ELSE IF checks THEN [size |-> 0, res |-> "Panic"]
    ELSE [size |-> total % (U32Max + 1), res |-> "Ok"]

RECURSIVE SumPlus(_, _)
\* The sum over a list of owners (given by their sizes) of size + extra.
SumPlus(sizes, extra) ==
    IF sizes = <<>> THEN 0 ELSE Head(sizes) + extra + SumPlus(Tail(sizes), extra)

\* The call after a computed size: a panic ends it, a size is tracked.
TrackComputedSize(p, c, sum) ==
    IF sum.res = "Panic" THEN Fail(c, "Panic")
    ELSE track_size_runtime_operations(p, c, sum.size)

\* ResourceController::track_runtime_owner_balances
track_runtime_owner_balances(p, c, owner_balances, checks) ==
    TrackComputedSize(p, c,
        UncheckedSum(SumPlus(owner_balances, RUNTIME_AMOUNT_SIZE), checks))

\* ResourceController::track_runtime_owners
track_runtime_owners(p, c, owners, checks) ==
    TrackComputedSize(p, c, UncheckedSum(SumPlus(owners, 0), checks))

\* ResourceController::track_runtime_chain_ownership
track_runtime_chain_ownership(p, c, super_owners, owners, checks) ==
    TrackComputedSize(p, c,
        UncheckedSum(SumPlus(super_owners, 0)
                       + SumPlus(owners, RUNTIME_OWNER_WEIGHT_SIZE)
                       + RUNTIME_CONSTANT_CHAIN_OWNERSHIP_SIZE, checks))

\* ResourceController::track_read_operation
track_read_operation(p, c) ==
    ChargePrice(CheckedAdd(c, "read_operations", 1, "Overflow"),
                read_operations_price(p, 1))

\* ResourceController::track_write_operations
track_write_operations(p, c, count) ==
    ChargePrice(CheckedAdd(c, "write_operations", count, "Overflow"),
                write_operations_price(p, count))

\* Mutant of track_bytes_read: the total may reach the maximum.
track_bytes_read_strict(p, c, count) ==
    LET c1 == CheckedAdd(c, "bytes_read", count, "Overflow")
        c2 == Ensure(c1, ~(c1.t.bytes_read > p.maximum_bytes_read_per_block),
                     "ExcessiveRead")
    IN  ChargePrice(c2, bytes_read_price(p, count))

\* ResourceController::track_bytes_read
track_bytes_read(p, c, count) ==
    LET c1 == CheckedAdd(c, "bytes_read", count, "Overflow")
        c2 == Ensure(c1, ~(c1.t.bytes_read >= p.maximum_bytes_read_per_block),
                     "ExcessiveRead")
    IN  ChargePrice(c2, bytes_read_price(p, count))

\* Mutant of track_bytes_written: a total refused by the cap is not kept.
track_bytes_written_rollback(p, c, count) ==
    LET c1 == CheckedAdd(c, "bytes_written", count, "Overflow")
        c2 == IF c1.res = "Ok"
                 /\ c1.t.bytes_written >= p.maximum_bytes_written_per_block
              THEN Fail(c, "ExcessiveWrite")
              ELSE c1
    IN  ChargePrice(c2, bytes_written_price(p, count))

\* ResourceController::track_bytes_written
track_bytes_written(p, c, count) ==
    LET c1 == CheckedAdd(c, "bytes_written", count, "Overflow")
        c2 == Ensure(c1,
                     ~(c1.t.bytes_written >= p.maximum_bytes_written_per_block),
                     "ExcessiveWrite")
    IN  ChargePrice(c2, bytes_written_price(p, count))

\* Mutant of track_blob_read: the two counters are written together, or not
\* at all.
track_blob_read_atomic(p, c, count) ==
    LET c1 == CheckedAdd(c, "blob_bytes_read", count, "Overflow")
        c2 == CheckedAdd(c1, "blobs_read", 1, "Overflow")
        c3 == IF c2.res = "Ok" THEN c2 ELSE Fail(c, "Overflow")
    IN  ChargePrice(c3, blob_read_price(p, count))

\* ResourceController::track_blob_read
track_blob_read(p, c, count) ==
    LET c1 == CheckedAdd(c, "blob_bytes_read", count, "Overflow")
        c2 == CheckedAdd(c1, "blobs_read", 1, "Overflow")
    IN  ChargePrice(c2, blob_read_price(p, count))

\* Mutant of track_blob_published: a committee blob is counted and charged.
track_blob_published_no_exemption(p, c, size, committee) ==
    LET c0 == Ensure(c, check_blob_size(p, size), "BlobTooLarge")
        c1 == CheckedAdd(c0, "blob_bytes_published", size, "Overflow")
        c2 == CheckedAdd(c1, "blobs_published", 1, "Overflow")
    IN  ChargePrice(c2, blob_published_price(p, size))

\* ResourceController::track_blob_published.  size: the length of the blob's
\* content; committee: blob.is_committee_blob().
track_blob_published(p, c, size, committee) ==
    LET c0 == Ensure(c, check_blob_size(p, size), "BlobTooLarge")
        c1 == CheckedAdd(c0, "blob_bytes_published", size, "Overflow")
        c2 == CheckedAdd(c1, "blobs_published", 1, "Overflow")
        c3 == ChargePrice(c2, blob_published_price(p, size))
    IN  IF committee THEN c0 ELSE c3

\* ResourceController::track_stored_bytes: a checked i32 addition.
track_stored_bytes(c, delta) ==
    IF c.t.bytes_stored + delta > I32Max \/ c.t.bytes_stored + delta < I32Min
    THEN Fail(c, "Overflow")
    ELSE [c EXCEPT !.t.bytes_stored = @ + delta]

\* Duration::from_millis
from_millis(ms) == ms * TicksPerMilli

\* Mutant of remaining_service_oracle_execution_time: time spent equal to the
\* limit is an error.
remaining_service_oracle_execution_time_strict(p, t) ==
    LET spent_execution_time == t.service_oracle_execution
        limit == from_millis(p.maximum_service_oracle_execution_ms)
    IN  IF limit > spent_execution_time
        THEN [res |-> "Ok", ret |-> limit - spent_execution_time]
        ELSE [res |-> "MaximumServiceOracleExecutionTimeExceeded", ret |-> 0]

\* ResourceController::remaining_service_oracle_execution_time: the result and,
\* when Ok, the remaining duration.
remaining_service_oracle_execution_time(p, t) ==
    LET spent_execution_time == t.service_oracle_execution
        limit == from_millis(p.maximum_service_oracle_execution_ms)
    IN  IF limit >= spent_execution_time
        THEN [res |-> "Ok", ret |-> limit - spent_execution_time]
        ELSE [res |-> "MaximumServiceOracleExecutionTimeExceeded", ret |-> 0]

\* ResourceController::track_service_oracle_call
track_service_oracle_call(p, c) ==
    update_balance(CheckedAdd(c, "service_oracle_queries", 1, "Overflow"),
                   p.service_as_oracle_query)

\* ResourceController::track_service_oracle_execution: a saturating addition.
track_service_oracle_execution(p, c, execution_time) ==
    LET limit == from_millis(p.maximum_service_oracle_execution_ms)
        c1 == [c EXCEPT !.t.service_oracle_execution =
                            Min(@ + execution_time, DurationMax)]
    IN  Ensure(c1, c1.t.service_oracle_execution < limit,
               "MaximumServiceOracleExecutionTimeExceeded")

\* ResourceController::track_service_oracle_response
track_service_oracle_response(p, c, response_bytes) ==
    Ensure(c, response_bytes <= p.maximum_oracle_response_bytes,
           "ServiceOracleResponseTooLarge")

\* Mutant of track_block_size: a block of exactly the maximum size is refused.
track_block_size_inclusive(p, c, size) ==
    LET c1 == CheckedAdd(c, "block_size", size, "BlockTooLarge")
    IN  Ensure(c1, c1.t.block_size < p.maximum_block_size, "BlockTooLarge")

\* ResourceController::track_block_size (and track_block_size_of, which passes
\* the serialized size of its argument).  u64::try_from(usize) cannot fail on a
\* 64-bit target.
track_block_size(p, c, size) ==
    LET c1 == CheckedAdd(c, "block_size", size, "BlockTooLarge")
    IN  Ensure(c1, c1.t.block_size <= p.maximum_block_size, "BlockTooLarge")

(***************************************************************************)
(* State.                                                                  *)
(*                                                                         *)
(* A controller is either a ResourceController<Amount, ResourceTracker>    *)
(* (kind "Amount", its funds in `account`) or a                            *)
(* ResourceController<Option<AccountOwner>, ResourceTracker> (kind         *)
(* "Owner", its account the optional owner in `owner`).  The second kind   *)
(* charges through the transient controller with_state_and_grant returns:  *)
(* `sources` is that controller's Sources, a list of references to the     *)
(* chain balance and the per-owner balances of the execution state `view`  *)
(* and to the caller's `grant`; `borrowed` tells that it exists.  The      *)
(* transient controller borrows the tracker, so both share `tracker`.      *)
(***************************************************************************)
VARIABLES
    policy,     \* the controller's (fixed) policy
    tracker,    \* the ResourceTracker
    kind,       \* "Amount" or "Owner": the controller's account type
    account,    \* the Amount of a controller of kind "Amount"
    owner,      \* the Option<AccountOwner> of a controller of kind "Owner"
    view,       \* SystemExecutionStateView: balance and balances
    grant,      \* the caller's grant, an Amount
    sources,    \* the transient controller's Sources: a list of references
    borrowed,   \* whether the transient controller exists
    last,       \* the last call: operation, inputs, result
    prev,       \* the state before the last call (see Before)
    calls,      \* the number of calls made on a controller
    tracked,    \* per counter: its initial value plus the quantities tracked
    fees_due,   \* the fees the policy computed for the calls since balance0
    balance0,   \* the funds of the account when it was bound
    all_ok      \* every call so far was a track_* call that returned Ok

vars == <<policy, tracker, kind, account, owner, view, grant, sources,
          borrowed, last, prev, calls, tracked, fees_due, balance0, all_ok>>

Owners == {"alice", "bob"}
NoOwner == "none"
\* The per-owner balance map has no entry for the owner.
NoEntry == 0 - 1

\* What a reference of a Sources list may point to.
Refs == {"grant", "chain"} \cup Owners

\* The amount behind a reference.
Deref(ref) ==
    IF ref = "grant" THEN grant
    ELSE IF ref = "chain" THEN view.balance
    ELSE view.balances[ref]

\* The account the controller charges, as the list of its amounts.
AcctList ==
    IF kind = "Amount" THEN <<account>>
    ELSE [i \in 1..Len(sources) |-> Deref(sources[i])]

\* The funds of the account: the sum of its amounts.
Funds == SumSeq(AcctList)

\* What `prev` keeps of a state: the tracker, the account's amounts, and the
\* execution state and the grant the amounts may live in.
Before == [t |-> tracker, a |-> AcctList, view |-> view, grant |-> grant]

\* The amount behind `ref` once the account's amounts are `list`.
Stored(ref, list) ==
    IF \E i \in 1..Len(sources) : sources[i] = ref
    THEN list[CHOOSE i \in 1..Len(sources) : sources[i] = ref]
    ELSE Deref(ref)

\* Writes the account's amounts back to where they live.
SetAcct(list) ==
    IF kind = "Amount"
    THEN /\ account' = list[1]
         /\ UNCHANGED <<view, grant>>
    ELSE /\ account' = account
         /\ grant' = Stored("grant", list)
         /\ view' = [balance |-> Stored("chain", list),
                     balances |-> [o \in Owners |-> Stored(o, list)]]

\* Mutant of with_state_and_grant: the owner's balance is pushed first.
with_state_and_grant_owner_first(own, v, with_grant) ==
    LET first == IF with_grant THEN <<"grant">> ELSE <<"chain">>
        second == IF own # NoOwner
                  THEN IF v.balances[own] # NoEntry THEN <<own>> ELSE <<>>
                  ELSE <<>>
    IN  second \o first

\* ResourceController::with_state_and_grant: the Sources list it builds.
\* with_grant: whether the caller passes Some(grant).
with_state_and_grant(own, v, with_grant) ==
    LET first == IF with_grant THEN <<"grant">> ELSE <<"chain">>
        second == IF own # NoOwner
                  THEN IF v.balances[own] # NoEntry THEN <<own>> ELSE <<>>
                  ELSE <<>>
    IN  first \o second

\* ResourceController::with_state
with_state(own, v) == with_state_and_grant(own, v, FALSE)

(***************************************************************************)
(* Initial states: a controller as ResourceController::new builds it, with *)
(* a policy, a tracker and an account.                                     *)
(***************************************************************************)
\* A tracker whose unit counters have reached the largest value of their type.
SaturatedTracker ==
    [ DefaultTracker EXCEPT !.read_operations = U32Max,
                            !.blobs_read = U32Max,
                            !.blobs_published = U32Max,
                            !.operations = U32Max,
                            !.messages = U32Max,
                            !.http_requests = U32Max,
                            !.service_oracle_queries = U32Max ]

InitialTrackers == {DefaultTracker, SaturatedTracker}
InitialBalances == {0, 1, 40, AmountMax}
ChainBalances == {2, AmountMax}
OwnerEntries == {NoEntry, 3}

\* Quantities a call is asked to track: counter name -> quantity.
NoQty == [f \in {} |-> 0]
Qty1(f, n) == f :> n
Qty2(f, n, g, m) == f :> n @@ g :> m

\* A call as `last` records it: the operation, its inputs n, m and vm, the
\* quantities q it was asked to track, its result res, the fields fees and
\* balance of a FeesExceedFunding, and the value ret a query returned.
NoCall ==
    [op |-> "new", res |-> "Ok", n |-> 0, m |-> 0, vm |-> "", q |-> NoQty,
     fees |-> 0, balance |-> 0, ret |-> 0]

InitCommon ==
    /\ policy \in Policies
    /\ tracker \in InitialTrackers
    /\ tracked = tracker
    /\ last = NoCall
    /\ calls = 0
    /\ fees_due = 0
    /\ all_ok = TRUE

InitAmount ==
    /\ kind = "Amount"
    /\ account \in InitialBalances
    /\ owner = NoOwner
    /\ view = [balance |-> 0, balances |-> [o \in Owners |-> NoEntry]]
    /\ grant = 0
    /\ sources = <<>>
    /\ borrowed = FALSE
    /\ balance0 = account

InitOwner ==
    /\ kind = "Owner"
    /\ tracker = DefaultTracker
    /\ account = 0
    /\ owner \in {NoOwner, "alice"}
    /\ \E chain \in ChainBalances, entry \in OwnerEntries :
          view = [balance |-> chain,
                  balances |-> [o \in Owners |->
                                   IF o = "alice" THEN entry ELSE 1]]
    /\ grant = 2
    /\ sources = <<>>
    /\ borrowed = FALSE
    /\ balance0 = 0

Init == InitCommon /\ (InitAmount \/ InitOwner) /\ prev = Before

(***************************************************************************)
(* Calls.                                                                  *)
(***************************************************************************)
\* The account type of the controller that charges.
HolderKind == IF kind = "Amount" THEN "Amount" ELSE "Sources"

\* A call on the controller that charges, as it starts.
Cur == Call(HolderKind, tracker, AcctList)

\* A controller whose account is a BalanceHolder exists and may be called.
CanCharge == calls < MaxCalls /\ (kind = "Amount" \/ borrowed)

Record(op, c, n, m, vmr, q, ret) ==
    /\ last' = [op |-> op, res |-> c.res, n |-> n, m |-> m, vm |-> vmr,
                q |-> q, fees |-> c.fees, balance |-> c.balance, ret |-> ret]
    /\ prev' = Before

\* The end of a track_* call that left the call at c: the tracker and the
\* account are written; q and fee are the quantities the call was asked to
\* track and the fee the policy computes for them.
Finish(op, c, n, m, vmr, q, fee) ==
    /\ tracker' = c.t
    /\ SetAcct(c.a)
    /\ Record(op, c, n, m, vmr, q, 0)
    /\ calls' = calls + 1
    /\ all_ok' = (all_ok /\ c.res = "Ok")
    /\ tracked' = IF all_ok'
                  THEN [f \in CounterNames |->
                           tracked[f] + (IF f \in DOMAIN q THEN q[f] ELSE 0)]
                  ELSE DefaultTracker
    /\ fees_due' = IF all_ok' THEN fees_due + fee ELSE 0
    /\ UNCHANGED <<policy, kind, owner, sources, borrowed, balance0>>

\* The end of a call that is no track_* call and changes the account only.
FinishOther(op, c, n, m, vmr, ret) ==
    /\ tracker' = c.t
    /\ SetAcct(c.a)
    /\ Record(op, c, n, m, vmr, NoQty, ret)
    /\ calls' = calls + 1
    /\ all_ok' = FALSE
    /\ tracked' = DefaultTracker
    /\ fees_due' = 0
    /\ UNCHANGED <<policy, kind, owner, sources, borrowed, balance0>>

\* The end of a call that only reads.
FinishQuery(op, res, n, vmr, ret) ==
    /\ last' = [op |-> op, res |-> res, n |-> n, m |-> 0, vm |-> vmr,
                q |-> NoQty, fees |-> 0, balance |-> 0, ret |-> ret]
    /\ prev' = Before
    /\ calls' = calls + 1
    /\ UNCHANGED <<policy, tracker, kind, account, owner, view, grant, sources,
                   borrowed, tracked, fees_due, balance0, all_ok>>

(***************************************************************************)
(* Inputs of the calls.                                                    *)
(***************************************************************************)
GrantInputs == {0, 1, AmountMax}
PayloadSizes == {0, 2, U64Max}
FuelInputs == {0, 1, 3, U64Max}
ParameterLengths == {0, 5, U32Max + 1, U32Max + 6}
OwnerLists == {<<>>, <<32>>, <<32, 32>>}
SuperOwnerLists == {<<>>, <<20>>}
WeightedOwnerLists == {<<>>, <<1>>}
WriteCounts == {0, 1, U32Max}
ByteCounts == {0, 1, 2, 3, U64Max}
BlobSizes == {0, 2, 4, U64Max}
StoredDeltas == {0 - 1, 1, I32Max, I32Min}
ExecutionTimes == {0, 1, from_millis(2), from_millis(3), DurationMax}
ResponseSizes == {0, 2, 3}
BlockSizes == {0, 1, 3, 4, U64Max}
MergeInputs == {<<2, 2>>, <<2, 0>>, <<1, 3>>, <<AmountMax, 0>>, <<0, AmountMax>>}

(***************************************************************************)
(* Actions: one per operation of the controller.                           *)
(***************************************************************************)
TrackGrant ==
    /\ CanCharge
    /\ \E g \in GrantInputs :
          Finish("track_grant", track_grant(Cur, g), g, 0, "",
                 Qty1("grants", g), g)

TrackOperation ==
    /\ CanCharge
    /\ \/ Finish("track_operation", track_operation(policy, Cur, FALSE, 0),
                 0, 0, "", Qty1("operations", 1), policy.operation)
       \/ \E size \in PayloadSizes :
             Finish("track_operation", track_operation(policy, Cur, TRUE, size),
                    size, 1, "",
                    Qty2("operations", 1, "operation_bytes", size),
                    policy.operation + operation_bytes_price(policy, size))

TrackMessage ==
    /\ CanCharge
    /\ \/ Finish("track_message", track_message(policy, Cur, FALSE, 0),
                 0, 0, "", Qty1("messages", 1), policy.message)
       \/ \E size \in PayloadSizes :
             Finish("track_message", track_message(policy, Cur, TRUE, size),
                    size, 1, "",
                    Qty2("messages", 1, "message_bytes", size),
                    policy.message + message_bytes_price(policy, size))

TrackHttpRequest ==
    /\ CanCharge
    /\ Finish("track_http_request", track_http_request(policy, Cur), 1, 0, "",
              Qty1("http_requests", 1), policy.http_request)

TrackFuel ==
    /\ CanCharge
    /\ \E f \in FuelInputs, vm \in VmRuntimes :
          Finish("track_fuel", track_fuel(policy, Cur, f, vm), f, 0, vm,
                 Qty1(FuelCounter(vm), f), fuel_price(policy, f, vm))

\* The end of a call of the track_runtime_* family asked to track `size` bytes.
FinishRuntime(op, c, size, charged) ==
    Finish(op, c, size, 0, "", Qty1("bytes_runtime", size),
           bytes_runtime_price(policy, charged))

TrackRuntimeChainId ==
    /\ CanCharge
    /\ FinishRuntime("track_runtime_chain_id",
                     track_runtime_chain_id(policy, Cur),
                     RUNTIME_CHAIN_ID_SIZE, RUNTIME_CHAIN_ID_SIZE)

TrackRuntimeBlockHeight ==
    /\ CanCharge
    /\ FinishRuntime("track_runtime_block_height",
                     track_runtime_block_height(policy, Cur),
                     RUNTIME_BLOCK_HEIGHT_SIZE, RUNTIME_BLOCK_HEIGHT_SIZE)

TrackRuntimeApplicationId ==
    /\ CanCharge
    /\ FinishRuntime("track_runtime_application_id",
                     track_runtime_application_id(policy, Cur),
                     RUNTIME_APPLICATION_ID_SIZE, RUNTIME_APPLICATION_ID_SIZE)

TrackRuntimeTimestamp ==
    /\ CanCharge
    /\ FinishRuntime("track_runtime_timestamp",
                     track_runtime_timestamp(policy, Cur),
                     RUNTIME_TIMESTAMP_SIZE, RUNTIME_TIMESTAMP_SIZE)

TrackRuntimeBalance ==
    /\ CanCharge
    /\ FinishRuntime("track_runtime_balance",
                     track_runtime_balance(policy, Cur),
                     RUNTIME_AMOUNT_SIZE, RUNTIME_AMOUNT_SIZE)

TrackRuntimeApplicationParameters ==
    /\ CanCharge
    /\ \E len \in ParameterLengths :
          FinishRuntime("track_runtime_application_parameters",
                        track_runtime_application_parameters(policy, Cur, len),
                        len, AsU32(len))

TrackRuntimeOwnerBalances ==
    /\ CanCharge
    /\ \E owners \in OwnerLists, checks \in BOOLEAN :
          FinishRuntime("track_runtime_owner_balances",
                        track_runtime_owner_balances(policy, Cur, owners, checks),
                        SumPlus(owners, RUNTIME_AMOUNT_SIZE),
                        AsU32(SumPlus(owners, RUNTIME_AMOUNT_SIZE)))

TrackRuntimeOwners ==
    /\ CanCharge
    /\ \E owners \in OwnerLists, checks \in BOOLEAN :
          FinishRuntime("track_runtime_owners",
                        track_runtime_owners(policy, Cur, owners, checks),
                        SumPlus(owners, 0), AsU32(SumPlus(owners, 0)))

TrackRuntimeChainOwnership ==
    /\ CanCharge
    /\ \E supers \in SuperOwnerLists, owners \in WeightedOwnerLists,
          checks \in BOOLEAN :
          LET size == SumPlus(supers, 0)
                        + SumPlus(owners, RUNTIME_OWNER_WEIGHT_SIZE)
                        + RUNTIME_CONSTANT_CHAIN_OWNERSHIP_SIZE
          IN  FinishRuntime("track_runtime_chain_ownership",
                            track_runtime_chain_ownership(policy, Cur, supers,
                                                          owners, checks),
                            size, AsU32(size))

TrackReadOperation ==
    /\ CanCharge
    /\ Finish("track_read_operation", track_read_operation(policy, Cur),
              1, 0, "", Qty1("read_operations", 1),
              read_operations_price(policy, 1))

TrackWriteOperations ==
    /\ CanCharge
    /\ \E count \in WriteCounts :
          Finish("track_write_operations",
                 track_write_operations(policy, Cur, count), count, 0, "",
                 Qty1("write_operations", count),
                 write_operations_price(policy, count))

TrackBytesRead ==
    /\ CanCharge
    /\ \E count \in ByteCounts :
          Finish("track_bytes_read", track_bytes_read(policy, Cur, count),
                 count, 0, "", Qty1("bytes_read", count),
                 bytes_read_price(policy, count))

TrackBytesWritten ==
    /\ CanCharge
    /\ \E count \in ByteCounts :
          Finish("track_bytes_written", track_bytes_written(policy, Cur, count),
                 count, 0, "", Qty1("bytes_written", count),
                 bytes_written_price(policy, count))

TrackBlobRead ==
    /\ CanCharge
    /\ \E count \in BlobSizes :
          Finish("track_blob_read", track_blob_read(policy, Cur, count),
                 count, 0, "",
                 Qty2("blobs_read", 1, "blob_bytes_read", count),
                 blob_read_price(policy, count))

TrackBlobPublished ==
    /\ CanCharge
    /\ \E size \in BlobSizes :
          \/ Finish("track_blob_published",
                    track_blob_published(policy, Cur, size, FALSE),
                    size, 0, "",
                    Qty2("blobs_published", 1, "blob_bytes_published", size),
                    blob_published_price(policy, size))
          \/ Finish("track_blob_published",
                    track_blob_published(policy, Cur, size, TRUE),
                    size, 1, "", NoQty, 0)

TrackStoredBytes ==
    /\ CanCharge
    /\ \E delta \in StoredDeltas :
          Finish("track_stored_bytes", track_stored_bytes(Cur, delta),
                 delta, 0, "", Qty1("bytes_stored", delta), 0)

RemainingServiceOracleExecutionTime ==
    /\ CanCharge
    /\ LET r == remaining_service_oracle_execution_time(policy, tracker)
       IN  FinishQuery("remaining_service_oracle_execution_time",
                       r.res, 0, "", r.ret)

TrackServiceOracleCall ==
    /\ CanCharge
    /\ Finish("track_service_oracle_call",
              track_service_oracle_call(policy, Cur), 1, 0, "",
              Qty1("service_oracle_queries", 1), policy.service_as_oracle_query)

TrackServiceOracleExecution ==
    /\ CanCharge
    /\ \E d \in ExecutionTimes :
          Finish("track_service_oracle_execution",
                 track_service_oracle_execution(policy, Cur, d), d, 0, "",
                 Qty1("service_oracle_execution", d), 0)

TrackServiceOracleResponse ==
    /\ CanCharge
    /\ \E bytes \in ResponseSizes :
          Finish("track_service_oracle_response",
                 track_service_oracle_response(policy, Cur, bytes),
                 bytes, 0, "", NoQty, 0)

\* track_block_size needs no BalanceHolder: every controller offers it.
TrackBlockSize ==
    /\ calls < MaxCalls
    /\ \E size \in BlockSizes :
          Finish("track_block_size", track_block_size(policy, Cur, size),
                 size, 0, "", Qty1("block_size", size), 0)

MergeBalance ==
    /\ CanCharge
    /\ \E io \in MergeInputs :
          FinishOther("merge_balance", merge_balance(Cur, io[1], io[2]),
                      io[1], io[2], "", 0)

RemainingFuel ==
    /\ CanCharge
    /\ \E vm \in VmRuntimes :
          FinishQuery("remaining_fuel", "Ok", 0, vm,
                      remaining_fuel(policy, HolderKind, tracker, AcctList, vm))

Balance ==
    /\ CanCharge
    /\ LET b == controller_balance(HolderKind, AcctList)
       IN  FinishQuery("balance", IF b = Overflow THEN "Overflow" ELSE "Ok",
                       0, "", IF b = Overflow THEN 0 ELSE b)

\* with_state and with_state_and_grant on a controller of kind "Owner": the
\* transient controller they return replaces the one of the call before.  The
\* first binding is free; a later one counts as a call.
CanBind == kind = "Owner" /\ (~borrowed \/ calls < MaxCalls)

Bind(op, list, with_grant) ==
    /\ sources' = list
    /\ borrowed' = TRUE
    /\ last' = [NoCall EXCEPT !.op = op, !.m = IF with_grant THEN 1 ELSE 0]
    /\ prev' = Before
    /\ calls' = IF borrowed THEN calls + 1 ELSE calls
    /\ balance0' = SumSeq([i \in 1..Len(list) |-> Deref(list[i])])
    /\ fees_due' = 0
    /\ UNCHANGED <<policy, tracker, kind, account, owner, view, grant,
                   tracked, all_ok>>

WithState ==
    /\ CanBind
    /\ Bind("with_state", with_state(owner, view), FALSE)

WithStateAndGrant ==
    /\ CanBind
    /\ \E with_grant \in BOOLEAN :
          Bind("with_state_and_grant",
               with_state_and_grant(owner, view, with_grant), with_grant)

Next ==
    \/ TrackGrant
    \/ TrackOperation
    \/ TrackMessage
    \/ TrackHttpRequest
    \/ TrackFuel
    \/ TrackRuntimeChainId
    \/ TrackRuntimeBlockHeight
    \/ TrackRuntimeApplicationId
    \/ TrackRuntimeTimestamp
    \/ TrackRuntimeBalance
    \/ TrackRuntimeApplicationParameters
    \/ TrackRuntimeOwnerBalances
    \/ TrackRuntimeOwners
    \/ TrackRuntimeChainOwnership
    \/ TrackReadOperation
    \/ TrackWriteOperations
    \/ TrackBytesRead
    \/ TrackBytesWritten
    \/ TrackBlobRead
    \/ TrackBlobPublished
    \/ TrackStoredBytes
    \/ RemainingServiceOracleExecutionTime
    \/ TrackServiceOracleCall
    \/ TrackServiceOracleExecution
    \/ TrackServiceOracleResponse
    \/ TrackBlockSize
    \/ MergeBalance
    \/ RemainingFuel
    \/ Balance
    \/ WithState
    \/ WithStateAndGrant

Spec == Init /\ [][Next]_vars

(***************************************************************************)
(* The BalanceHolder methods called on an account by themselves: the       *)
(* account is a public field of the controller and the trait is public.    *)
(* SpecHolder draws the account (a single Amount, or a Sources list of any *)
(* length up to MaxSources) and the amounts, and applies one method.       *)
(***************************************************************************)
\* Calls made on the account in SpecHolder.
MaxHolderCalls == 1

SourceOrder == <<"grant", "chain", "alice", "bob">>
SourceAmounts == (0..MaxSourceAmount) \cup {5, 10, AmountMax}
DebitInputs == (0..MaxSourceAmount) \cup {12, 16, AmountMax}
CreditInputs == {0, 1, AmountMax}

\* The amount a cell starts with in SpecHolder: drawn if the list refers to it.
HolderCell(amounts, n, i) == IF i <= n THEN amounts[i] ELSE 1

\* A Sources list as with_state_and_grant builds it holds at least one source.
InitHolderSources ==
    /\ kind = "Owner"
    /\ account = 0
    /\ borrowed = TRUE
    /\ \E n \in 1..Min(MaxSources, Len(SourceOrder)) :
          /\ sources = SubSeq(SourceOrder, 1, n)
          /\ \E amounts \in [1..n -> SourceAmounts] :
                /\ grant = HolderCell(amounts, n, 1)
                /\ view = [balance |-> HolderCell(amounts, n, 2),
                           balances |-> [o \in Owners |->
                                IF o = "alice" THEN HolderCell(amounts, n, 3)
                                               ELSE HolderCell(amounts, n, 4)]]

InitHolderAmount ==
    /\ kind = "Amount"
    /\ account \in SourceAmounts
    /\ borrowed = FALSE
    /\ sources = <<>>
    /\ grant = 0
    /\ view = [balance |-> 0, balances |-> [o \in Owners |-> NoEntry]]

InitHolder ==
    /\ policy = NoFeesPolicy
    /\ tracker = DefaultTracker
    /\ tracked = DefaultTracker
    /\ owner = NoOwner
    /\ last = NoCall
    /\ calls = 0
    /\ fees_due = 0
    /\ all_ok = TRUE
    /\ (InitHolderSources \/ InitHolderAmount)
    /\ balance0 = Funds
    /\ prev = Before

HolderBalanceCall ==
    /\ calls < MaxHolderCalls
    /\ LET b == HolderBalance(HolderKind, AcctList)
       IN  FinishQuery("BalanceHolder::balance",
                       IF b = Overflow THEN "Overflow" ELSE "Ok", 0, "",
                       IF b = Overflow THEN 0 ELSE b)

HolderTryAddAssignCall ==
    /\ calls < MaxHolderCalls
    /\ \E other \in CreditInputs :
          LET r == HolderTryAddAssign(HolderKind, AcctList, other)
          IN  FinishOther("BalanceHolder::try_add_assign",
                          [Cur EXCEPT !.a = r.list, !.res = r.res],
                          other, 0, "", 0)

HolderTrySubAssignCall ==
    /\ calls < MaxHolderCalls
    /\ \E other \in DebitInputs :
          LET r == HolderTrySubAssign(HolderKind, AcctList, other)
          IN  FinishOther("BalanceHolder::try_sub_assign",
                          [Cur EXCEPT !.a = r.list, !.res = r.res],
                          other, 0, "", 0)

NextHolder ==
    \/ HolderBalanceCall
    \/ HolderTryAddAssignCall
    \/ HolderTrySubAssignCall

SpecHolder == InitHolder /\ [][NextHolder]_vars

(***************************************************************************)
(* Properties.                                                             *)
(***************************************************************************)
\* The last call was `op` on a Sources account.
OnSources(op) == last.op = op /\ kind = "Owner"

\* The first source of `list` able to cover what is left of `amount` once the
\* sources before it are drained; Len(list) + 1 if there is none.
FirstCovering(list, amount) ==
    IF \E k \in 1..Len(list) : SumSeq(SubSeq(list, 1, k)) >= amount
    THEN CHOOSE k \in 1..Len(list) :
            /\ SumSeq(SubSeq(list, 1, k)) >= amount
            /\ \A j \in 1..(k - 1) : SumSeq(SubSeq(list, 1, j)) < amount
    ELSE Len(list) + 1

\* C1: Sources.try_sub_assign(amount) on sources whose sum is at least amount
\* returns Ok, lowers the sum by exactly amount, reduces a source only if every
\* source before it ends at zero, and leaves every source after the first one
\* able to cover the remainder unchanged.
C1_SufficientDebitDrainsFrontToBack ==
    (OnSources("BalanceHolder::try_sub_assign") /\ SumSeq(prev.a) >= last.n) =>
        /\ last.res = "Ok"
        /\ Len(AcctList) = Len(prev.a)
        /\ SumSeq(AcctList) = SumSeq(prev.a) - last.n
        /\ \A i \in 1..Len(prev.a) :
              AcctList[i] < prev.a[i] => \A j \in 1..(i - 1) : AcctList[j] = 0
        /\ \A i \in 1..Len(prev.a) :
              i > FirstCovering(prev.a, last.n) => AcctList[i] = prev.a[i]

\* C1 witness: sources [10, 5] debited 12 end as [0, 3].
C1_Witness ==
    /\ OnSources("BalanceHolder::try_sub_assign")
    /\ prev.a = <<10, 5>>
    /\ last.n = 12
    /\ last.res = "Ok"
    /\ AcctList = <<0, 3>>

\* C2: Sources.try_sub_assign(amount) on sources whose sum is strictly less
\* than amount fails with Underflow and leaves every source at zero.
C2_InsufficientDebitDrainsEverything ==
    (OnSources("BalanceHolder::try_sub_assign") /\ SumSeq(prev.a) < last.n) =>
        /\ last.res = "Underflow"
        /\ Len(AcctList) = Len(prev.a)
        /\ \A i \in 1..Len(AcctList) : AcctList[i] = 0

\* C2 witness: sources [10, 5] debited 16 fail and end as [0, 0].
C2_Witness ==
    /\ OnSources("BalanceHolder::try_sub_assign")
    /\ prev.a = <<10, 5>>
    /\ last.n = 16
    /\ last.res = "Underflow"
    /\ AcctList = <<0, 0>>

\* The track_* calls that add one to a counter, and that counter.
UnitCounter ==
    [ track_operation |-> "operations", track_message |-> "messages",
      track_http_request |-> "http_requests",
      track_read_operation |-> "read_operations",
      track_service_oracle_call |-> "service_oracle_queries" ]

\* The track_* calls that add their argument to a counter before they debit,
\* and that counter.
AmountCounter ==
    [ track_grant |-> "grants", track_write_operations |-> "write_operations",
      track_bytes_read |-> "bytes_read", track_bytes_written |-> "bytes_written",
      track_blob_read |-> "blob_bytes_read",
      track_blob_published |-> "blob_bytes_published" ]

\* The calls of the track_runtime_* family.
RuntimeOps ==
    { "track_runtime_chain_id", "track_runtime_block_height",
      "track_runtime_application_id", "track_runtime_timestamp",
      "track_runtime_balance", "track_runtime_application_parameters",
      "track_runtime_owner_balances", "track_runtime_owners",
      "track_runtime_chain_ownership" }

\* The counter a track_* call that debits increments first, and by how much.
FirstCounter(l) ==
    IF l.op \in DOMAIN UnitCounter THEN UnitCounter[l.op]
    ELSE IF l.op \in DOMAIN AmountCounter THEN AmountCounter[l.op]
    ELSE IF l.op = "track_fuel" THEN FuelCounter(l.vm)
    ELSE "bytes_runtime"

FirstIncrement(l) ==
    IF l.op \in DOMAIN UnitCounter THEN 1
    ELSE IF l.op \in RuntimeOps THEN AsU32(l.n)
    ELSE l.n

\* The track_* calls that debit the account.
ChargingOps ==
    DOMAIN UnitCounter \cup DOMAIN AmountCounter \cup RuntimeOps \cup {"track_fuel"}

\* C3: when a track_* call has incremented its counter and the debit that
\* follows fails for lack of funds, the call returns FeesExceedFunding and the
\* counter keeps its incremented value; track_operation on a system operation
\* whose flat fee exceeds the funds fails so, with operations one higher.
C3_CounterKeptWhenDebitFails ==
    /\ (last.op \in ChargingOps /\ last.res = "FeesExceedFunding") =>
          /\ tracker[FirstCounter(last)]
                = prev.t[FirstCounter(last)] + FirstIncrement(last)
          /\ last.fees > last.balance
    /\ (/\ last.op = "track_operation"
        /\ last.m = 0
        /\ prev.t.operations < U32Max
        /\ SumSeq(prev.a) < policy.operation) =>
          /\ last.res = "FeesExceedFunding"
          /\ tracker.operations = prev.t.operations + 1

\* C3 witness: operation fee 1, balance 0, a system operation: the call fails
\* and operations is 1.
C3_Witness ==
    /\ last.op = "track_operation"
    /\ last.m = 0
    /\ kind = "Amount"
    /\ policy.operation = 1
    /\ prev.a = <<0>>
    /\ prev.t.operations = 0
    /\ last.res = "FeesExceedFunding"
    /\ tracker.operations = 1

\* C4: while every call so far was a track_* call that returned Ok, each
\* counter is its initial value plus the sum of the quantities tracked for it,
\* and the funds of the account are the initial funds minus the sum of the fees
\* the policy computed.
C4_CountersAndBalanceAreSums ==
    all_ok => /\ \A f \in CounterNames : tracker[f] = tracked[f]
              /\ Funds = balance0 - fees_due

\* Whether the last call got as far as its increment of counter f: the second
\* counter of a call is reached when nothing before it has ended the call.
Reached(f) ==
    CASE f = "operation_bytes" ->
            prev.t.operations < U32Max /\ SumSeq(prev.a) >= policy.operation
      [] f = "message_bytes" ->
            prev.t.messages < U32Max /\ SumSeq(prev.a) >= policy.message
      [] f = "blobs_read" ->
            prev.t.blob_bytes_read + last.q["blob_bytes_read"] <= U64Max
      [] f = "blob_bytes_published" -> check_blob_size(policy, last.n)
      [] f = "blobs_published" ->
            /\ check_blob_size(policy, last.n)
            /\ prev.t.blob_bytes_published + last.q["blob_bytes_published"]
                  <= U64Max
      [] OTHER -> TRUE

\* The smallest value of a counter's type.
CounterMin(f) == IF f = "bytes_stored" THEN I32Min ELSE 0

\* C5: every accumulation into a counter is overflow-checked: an increment
\* that would leave the counter's type makes the call fail with an arithmetic
\* overflow error and leaves the counter as it was; any other increment the
\* call reaches adds exactly the quantity tracked, never a wrapped or truncated
\* one.
C5_EveryAccumulationOverflowChecked ==
    \A f \in DOMAIN last.q :
        Reached(f) =>
            LET want == prev.t[f] + last.q[f]
            IN  IF want <= CounterMax[f] /\ want >= CounterMin(f)
                THEN tracker[f] = want
                ELSE last.res = "Overflow" /\ tracker[f] = prev.t[f]

\* The credit of a merge_balance goes to the single amount, or to the last
\* source.
Credited(list) == list[Len(list)]

\* C6 as stated: merge_balance(initial, other) leaves the funds unchanged when
\* other = initial, lowers them by initial - other when other < initial and
\* the funds suffice, and raises them by other - initial when other > initial.
C6_MergeAppliesDifference ==
    last.op = "merge_balance" =>
        /\ last.m = last.n => Funds = SumSeq(prev.a)
        /\ (last.m < last.n /\ SumSeq(prev.a) >= last.n - last.m) =>
              Funds = SumSeq(prev.a) - (last.n - last.m)
        /\ last.m > last.n => Funds = SumSeq(prev.a) + (last.m - last.n)

\* C6 amended: as stated, except that the credit of other - initial is made
\* only if the credited amount stays within Amount::MAX; otherwise the call
\* fails with an arithmetic overflow and the account is unchanged.
C6_MergeAppliesDifferenceUnlessOverflow ==
    last.op = "merge_balance" =>
        /\ last.m = last.n => last.res = "Ok" /\ AcctList = prev.a
        /\ (last.m < last.n /\ SumSeq(prev.a) >= last.n - last.m) =>
              /\ last.res = "Ok"
              /\ Funds = SumSeq(prev.a) - (last.n - last.m)
        /\ (/\ last.m > last.n
            /\ Credited(prev.a) + (last.m - last.n) <= AmountMax) =>
              /\ last.res = "Ok"
              /\ Funds = SumSeq(prev.a) + (last.m - last.n)
        /\ (/\ last.m > last.n
            /\ Credited(prev.a) + (last.m - last.n) > AmountMax) =>
              /\ last.res = "Overflow"
              /\ AcctList = prev.a

\* C6 witness: a credit of 3 - 1 = 2 that raised the funds by 2.
C6_Witness ==
    /\ last.op = "merge_balance"
    /\ last.n = 1
    /\ last.m = 3
    /\ last.res = "Ok"
    /\ SumSeq(prev.a) > 0
    /\ Funds = SumSeq(prev.a) + 2

\* C7: track_blob_published on a committee blob that passes the size check
\* returns Ok and changes neither a counter nor the account.
C7_CommitteeBlobIsFree ==
    (/\ last.op = "track_blob_published"
     /\ last.m = 1
     /\ check_blob_size(policy, last.n)) =>
        /\ last.res = "Ok"
        /\ tracker = prev.t
        /\ AcctList = prev.a
        /\ view = prev.view
        /\ grant = prev.grant

\* C7 witness: a committee blob of two bytes published for free under a policy
\* that charges blobs, by an account with no funds.
C7_Witness ==
    /\ last.op = "track_blob_published"
    /\ last.m = 1
    /\ last.n = 2
    /\ policy.blob_published > 0
    /\ policy.blob_byte_published > 0
    /\ check_blob_size(policy, last.n)
    /\ last.res = "Ok"
    /\ Funds = 0
    /\ tracker.blobs_published = 0

\* The other VM runtime.
OtherVm(vm) == IF vm = "Wasm" THEN "Evm" ELSE "Wasm"

\* C8: track_fuel(fuel, vm) never changes the other runtime's fuel counter,
\* and it fails with MaximumFuelExceeded exactly when vm's own counter plus
\* fuel fits the counter and exceeds vm's own maximum.
C8_FuelPoolsIndependent ==
    last.op = "track_fuel" =>
        /\ fuel(tracker, OtherVm(last.vm)) = fuel(prev.t, OtherVm(last.vm))
        /\ (last.res \in {"MaximumFuelExceeded(Wasm)", "MaximumFuelExceeded(Evm)"}
              <=> /\ fuel(prev.t, last.vm) + last.n <= U64Max
                  /\ fuel(prev.t, last.vm) + last.n
                        > maximum_fuel_per_block(policy, last.vm))
        /\ last.res = "MaximumFuelExceeded(Wasm)" => last.vm = "Wasm"
        /\ last.res = "MaximumFuelExceeded(Evm)" => last.vm = "Evm"

\* C8 witness: Wasm fuel tracked with success while the EVM pool is over the
\* EVM maximum, and over the Wasm fuel the call reached.
C8_Witness ==
    /\ last.op = "track_fuel"
    /\ last.vm = "Wasm"
    /\ last.res = "Ok"
    /\ last.n > 0
    /\ tracker.evm_fuel > policy.maximum_evm_fuel_per_block
    /\ tracker.wasm_fuel > policy.maximum_evm_fuel_per_block
    /\ tracker.wasm_fuel = policy.maximum_wasm_fuel_per_block

\* The byte-cap rule for the call `op` on counter f with maximum max, error err
\* and fee price.
ByteCapRule(op, f, max, err, price) ==
    last.op = op =>
        LET total == prev.t[f] + last.n
        IN  /\ last.res = err <=> (total <= U64Max /\ total >= max)
            /\ last.res = err =>
                  /\ tracker[f] = total
                  /\ AcctList = prev.a
                  /\ view = prev.view
                  /\ grant = prev.grant
            /\ (/\ total = max - 1
                /\ price # Overflow
                /\ SumSeq(prev.a) >= price) =>
                  /\ last.res = "Ok"
                  /\ tracker[f] = total

\* C9: track_bytes_read (track_bytes_written) fails with ExcessiveRead
\* (ExcessiveWrite) exactly when the total after the increment is greater than
\* or equal to the policy's maximum per block; a total of maximum - 1 passes
\* (the call is Ok when the funds cover its fee); on the failure the counter
\* holds the total after the increment and nothing is debited.
C9_ByteCapIsInclusive ==
    /\ ByteCapRule("track_bytes_read", "bytes_read",
                   policy.maximum_bytes_read_per_block, "ExcessiveRead",
                   bytes_read_price(policy, last.n))
    /\ ByteCapRule("track_bytes_written", "bytes_written",
                   policy.maximum_bytes_written_per_block, "ExcessiveWrite",
                   bytes_written_price(policy, last.n))

\* C9 witness: a read that brought the total from maximum - 1, reached by a
\* successful read, to exactly the maximum and failed, with funds at hand.
C9_Witness ==
    /\ last.op = "track_bytes_read"
    /\ last.res = "ExcessiveRead"
    /\ last.n > 0
    /\ prev.t.bytes_read > 0
    /\ prev.t.bytes_read = policy.maximum_bytes_read_per_block - 1
    /\ tracker.bytes_read = policy.maximum_bytes_read_per_block
    /\ policy.byte_read > 0
    /\ Funds > 0
    /\ AcctList = prev.a

\* Whether the owner the controller names has an entry in the balance map.
OwnerHasEntry == owner # NoOwner /\ view.balances[owner] # NoEntry

\* C10: the funding list of a controller made by with_state_and_grant is the
\* grant if one was supplied, otherwise the chain balance, followed by the
\* owner's balance only if the account names an owner who has an entry in the
\* balance map. With a grant no call changes the chain balance; the owner's
\* balance is debited only by a call that leaves the first source at zero; no
\* amount outside the list changes.
C10_FundingOrder ==
    borrowed =>
        /\ Len(sources) \in 1..2
        /\ sources[1] \in {"grant", "chain"}
        /\ last.op = "with_state" => sources[1] = "chain"
        /\ last.op = "with_state_and_grant" =>
              (sources[1] = "grant" <=> last.m = 1)
        /\ Len(sources) = 2 <=> OwnerHasEntry
        /\ Len(sources) = 2 => sources[2] = owner
        /\ sources[1] = "grant" => view.balance = prev.view.balance
        /\ (/\ Len(sources) = 2
            /\ view.balances[owner] < prev.view.balances[owner]) =>
              Deref(sources[1]) = 0
        /\ \A o \in Owners : o # owner => view.balances[o] = prev.view.balances[o]

\* C10 witness: a charge on a controller made with a grant and an owner that
\* drained the grant and took the rest from the owner, the chain balance
\* untouched.
C10_Witness ==
    /\ borrowed
    /\ sources = <<"grant", owner>>
    /\ last.res = "Ok"
    /\ prev.grant > 0
    /\ grant = 0
    /\ view.balances[owner] < prev.view.balances[owner]
    /\ Funds = SumSeq(prev.a) - fees_due
    /\ fees_due > prev.grant
    /\ view.balance = prev.view.balance
    /\ view.balance > 0

\* C11: no call, successful or failing, lowers a counter other than
\* bytes_stored.
C11_CountersNeverDecrease ==
    \A f \in CounterNames \ {"bytes_stored"} : tracker[f] >= prev.t[f]

\* C11 witness: a second call, failing, that raised a counter the first call
\* had already raised.
C11_Witness ==
    /\ calls = 2
    /\ last.res # "Ok"
    /\ \E f \in CounterNames \ {"bytes_stored"} :
          /\ prev.t[f] > 0
          /\ tracker[f] > prev.t[f]

\* The error of a fuel pool over its maximum.
MaximumFuelExceeded(vm) ==
    IF vm = "Wasm" THEN "MaximumFuelExceeded(Wasm)" ELSE "MaximumFuelExceeded(Evm)"

\* C12: track_fuel(fuel, vm) adds fuel to vm's pool; it fails with
\* MaximumFuelExceeded(vm) exactly when the pool after the addition is strictly
\* above vm's maximum per block, and then nothing is debited; a pool at most
\* the maximum passes, and the debit that follows is of fuel_price(fuel, vm):
\* the call is Ok with the funds lowered by that price when they cover it, and
\* FeesExceedFunding for that price when they do not.
C12_FuelCapIsExclusive ==
    last.op = "track_fuel" =>
        LET f == FuelCounter(last.vm)
            total == prev.t[f] + last.n
            maximum == maximum_fuel_per_block(policy, last.vm)
            price == fuel_price(policy, last.n, last.vm)
        IN  /\ total <= U64Max => tracker[f] = total
            /\ last.res = MaximumFuelExceeded(last.vm)
                  <=> (total <= U64Max /\ total > maximum)
            /\ last.res = MaximumFuelExceeded(last.vm) =>
                  /\ AcctList = prev.a
                  /\ view = prev.view
                  /\ grant = prev.grant
            /\ (total <= maximum /\ price # Overflow) =>
                  IF SumSeq(prev.a) >= price
                  THEN /\ last.res = "Ok"
                       /\ Funds = SumSeq(prev.a) - price
                  ELSE /\ last.res = "FeesExceedFunding"
                       /\ last.fees = price
            /\ last.res = "Ok" => Funds = SumSeq(prev.a) - price

\* C12 witness: fuel that brought a pool to exactly its maximum, accepted and
\* paid for.
C12_Witness ==
    /\ last.op = "track_fuel"
    /\ last.res = "Ok"
    /\ last.n > 0
    /\ prev.t[FuelCounter(last.vm)] > 0
    /\ tracker[FuelCounter(last.vm)] = maximum_fuel_per_block(policy, last.vm)
    /\ fuel_price(policy, last.n, last.vm) > 0
    /\ Funds = SumSeq(prev.a) - fuel_price(policy, last.n, last.vm)

\* Whether the last call made two debits and the first one went through: a
\* user operation or message whose flat fee the funds covered.
FlatFeePaid(flat) == last.m = 1 /\ SumSeq(prev.a) >= flat

\* The amount of the debit at which the last call failed for lack of funds.
FailedDebit ==
    CASE last.op = "track_grant" -> last.n
      [] last.op = "track_operation" ->
            IF FlatFeePaid(policy.operation)
            THEN operation_bytes_price(policy, last.n) ELSE policy.operation
      [] last.op = "track_message" ->
            IF FlatFeePaid(policy.message)
            THEN message_bytes_price(policy, last.n) ELSE policy.message
      [] last.op = "track_http_request" -> policy.http_request
      [] last.op = "track_fuel" -> fuel_price(policy, last.n, last.vm)
      [] last.op \in RuntimeOps -> bytes_runtime_price(policy, AsU32(last.n))
      [] last.op = "track_read_operation" -> read_operations_price(policy, 1)
      [] last.op = "track_write_operations" ->
            write_operations_price(policy, last.n)
      [] last.op = "track_bytes_read" -> bytes_read_price(policy, last.n)
      [] last.op = "track_bytes_written" -> bytes_written_price(policy, last.n)
      [] last.op = "track_blob_read" -> blob_read_price(policy, last.n)
      [] last.op = "track_blob_published" -> blob_published_price(policy, last.n)
      [] last.op = "track_service_oracle_call" -> policy.service_as_oracle_query
      [] last.op = "merge_balance" -> last.n - last.m
      [] OTHER -> 0

\* The funds the account had when that debit was tried.
AvailableForDebit ==
    IF last.op = "track_operation" /\ FlatFeePaid(policy.operation)
    THEN SumSeq(prev.a) - policy.operation
    ELSE IF last.op = "track_message" /\ FlatFeePaid(policy.message)
    THEN SumSeq(prev.a) - policy.message
    ELSE SumSeq(prev.a)

\* C13: a call that fails with FeesExceedFunding reports as fees the amount
\* of the debit that failed and as balance the funds the account had for that
\* debit, whether the account is a single amount or a list of sources.
C13_FundingErrorReportsFeeAndBalance ==
    last.res = "FeesExceedFunding" =>
        /\ last.fees = FailedDebit
        /\ last.balance = Min(AvailableForDebit, AmountMax)
        /\ last.fees > last.balance

\* C14 as stated: for a Sources account balance() is the sum of the source
\* amounts, and try_add_assign(amount) changes the last source only and raises
\* the sum by exactly amount.
C14_CreditGoesToLastSource ==
    /\ OnSources("BalanceHolder::balance") =>
          /\ last.res = "Ok"
          /\ last.ret = SumSeq(prev.a)
    /\ OnSources("BalanceHolder::try_add_assign") =>
          /\ \A i \in 1..(Len(prev.a) - 1) : AcctList[i] = prev.a[i]
          /\ Funds = SumSeq(prev.a) + last.n

\* C14 amended: balance() is the sum of the source amounts when the sum is at
\* most Amount::MAX and an overflow error otherwise; try_add_assign(amount)
\* changes the last source only and raises the sum by exactly amount when the
\* last source plus amount is at most Amount::MAX, and otherwise returns an
\* overflow error and changes no source.
C14_CreditGoesToLastSourceUnlessOverflow ==
    /\ OnSources("BalanceHolder::balance") =>
          /\ AcctList = prev.a
          /\ IF SumSeq(prev.a) <= AmountMax
             THEN last.res = "Ok" /\ last.ret = SumSeq(prev.a)
             ELSE last.res = "Overflow"
    /\ OnSources("BalanceHolder::try_add_assign") =>
          LET n == Len(prev.a)
          IN  /\ Len(AcctList) = n
              /\ \A i \in 1..(n - 1) : AcctList[i] = prev.a[i]
              /\ IF prev.a[n] + last.n <= AmountMax
                 THEN /\ last.res = "Ok"
                      /\ AcctList[n] = prev.a[n] + last.n
                      /\ Funds = SumSeq(prev.a) + last.n
                 ELSE /\ last.res = "Overflow"
                      /\ AcctList = prev.a

\* C14 witness: a credit of 1 to a list of at least two funded sources went to
\* the last one.
C14_Witness ==
    /\ OnSources("BalanceHolder::try_add_assign")
    /\ Len(prev.a) >= 2
    /\ prev.a[1] > 0
    /\ last.n = 1
    /\ last.res = "Ok"
    /\ AcctList[1] = prev.a[1]
    /\ AcctList[Len(prev.a)] = prev.a[Len(prev.a)] + 1

\* C15: remaining_fuel(vm) returns the smaller of the fuel the policy says the
\* balance buys for vm (the balance taken as Amount::MAX when the sum of the
\* sources exceeds it) and vm's maximum per block minus vm's fuel already
\* tracked, zero if that is negative; it changes neither tracker nor account.
C15_RemainingFuelIsMinimum ==
    last.op = "remaining_fuel" =>
        LET used == fuel(tracker, last.vm)
            maximum == maximum_fuel_per_block(policy, last.vm)
            budget == IF maximum - used < 0 THEN 0 ELSE maximum - used
            buys == policy_remaining_fuel(policy, Min(Funds, AmountMax), last.vm)
        IN  /\ last.res = "Ok"
            /\ last.ret = IF buys < budget THEN buys ELSE budget
            /\ tracker = prev.t
            /\ AcctList = prev.a
            /\ view = prev.view
            /\ grant = prev.grant

\* C15 witness: with fuel already tracked, the balance buys more than the
\* budget left, and the budget left is returned.
C15_Witness ==
    /\ last.op = "remaining_fuel"
    /\ fuel(tracker, last.vm) > 0
    /\ fuel(tracker, last.vm) < maximum_fuel_per_block(policy, last.vm)
    /\ policy_remaining_fuel(policy, Min(Funds, AmountMax), last.vm)
          > maximum_fuel_per_block(policy, last.vm)
    /\ last.ret = maximum_fuel_per_block(policy, last.vm) - fuel(tracker, last.vm)

\* C15 witness of the other side: the balance buys less than the budget left.
C15_BalanceBoundWitness ==
    /\ last.op = "remaining_fuel"
    /\ fuel_unit(policy, last.vm) > 0
    /\ Funds > 0
    /\ last.ret = Funds \div fuel_unit(policy, last.vm)
    /\ last.ret < maximum_fuel_per_block(policy, last.vm) - fuel(tracker, last.vm)

\* The policy's limit on the time services may run as oracles.
OracleLimit == from_millis(policy.maximum_service_oracle_execution_ms)

\* The error of oracle executions over their limit.
OracleTimeExceeded == "MaximumServiceOracleExecutionTimeExceeded"

\* C16: track_service_oracle_execution(d) adds d to service_oracle_execution,
\* and the sum is kept whether the call fails or not; the call fails, with
\* MaximumServiceOracleExecutionTimeExceeded, exactly when the sum reaches or
\* exceeds the policy's limit; it never changes the account.
C16_OracleExecutionCapIsInclusive ==
    last.op = "track_service_oracle_execution" =>
        LET total == prev.t.service_oracle_execution + last.n
        IN  /\ tracker.service_oracle_execution = total
            /\ last.res = OracleTimeExceeded <=> total >= OracleLimit
            /\ last.res \in {"Ok", OracleTimeExceeded}
            /\ AcctList = prev.a
            /\ view = prev.view
            /\ grant = prev.grant

\* C17: remaining_service_oracle_execution_time changes nothing; it returns the
\* limit minus the time spent, and fails, with
\* MaximumServiceOracleExecutionTimeExceeded, only when the time spent is
\* strictly above the limit.  Once track_service_oracle_execution has returned
\* Ok the remaining time is Ok and strictly positive, and so is the answer of a
\* call made after calls that all returned Ok, some of them tracking time.
C17_RemainingOracleTime ==
    /\ last.op = "remaining_service_oracle_execution_time" =>
          /\ tracker = prev.t
          /\ AcctList = prev.a
          /\ view = prev.view
          /\ grant = prev.grant
          /\ IF tracker.service_oracle_execution <= OracleLimit
             THEN /\ last.res = "Ok"
                  /\ last.ret = OracleLimit - tracker.service_oracle_execution
             ELSE last.res = OracleTimeExceeded
          /\ (all_ok /\ tracked.service_oracle_execution > 0) =>
                last.res = "Ok" /\ last.ret > 0
    /\ (last.op = "track_service_oracle_execution" /\ last.res = "Ok") =>
          LET r == remaining_service_oracle_execution_time(policy, tracker)
          IN  r.res = "Ok" /\ r.ret > 0

\* C17 witness: the remaining time asked after a successful
\* track_service_oracle_execution of a positive duration: positive, and less
\* than the limit by the time spent.
C17_Witness ==
    /\ last.op = "remaining_service_oracle_execution_time"
    /\ all_ok
    /\ tracked.service_oracle_execution > 0
    /\ tracker.service_oracle_execution = tracked.service_oracle_execution
    /\ last.res = "Ok"
    /\ last.ret > 0
    /\ last.ret = OracleLimit - tracker.service_oracle_execution

\* C17 witness of the boundary: time spent equal to the limit, zero remaining.
C17_BoundaryWitness ==
    /\ last.op = "remaining_service_oracle_execution_time"
    /\ tracker.service_oracle_execution = OracleLimit
    /\ OracleLimit > 0
    /\ last.res = "Ok"
    /\ last.ret = 0

\* C18: track_block_size(size) adds size to block_size (when the sum fits the
\* counter) and fails, with BlockTooLarge, exactly when block_size plus size is
\* strictly above the policy's maximum block size; it fails in no other way
\* and never changes the account.
C18_BlockSizeCapIsExclusive ==
    last.op = "track_block_size" =>
        LET total == prev.t.block_size + last.n
        IN  /\ total <= U64Max => tracker.block_size = total
            /\ last.res = "BlockTooLarge" <=> total > policy.maximum_block_size
            /\ last.res \in {"Ok", "BlockTooLarge"}
            /\ \A f \in CounterNames \ {"block_size"} : tracker[f] = prev.t[f]
            /\ AcctList = prev.a
            /\ account = IF kind = "Amount" THEN prev.a[1] ELSE account
            /\ view = prev.view
            /\ grant = prev.grant

\* C18 witness: a size that brought block_size to exactly the maximum,
\* accepted, on an account with funds that stay as they were.
C18_Witness ==
    /\ last.op = "track_block_size"
    /\ last.n > 0
    /\ tracker.block_size = policy.maximum_block_size
    /\ last.res = "Ok"
    /\ Funds > 0
    /\ AcctList = prev.a

\* What C19 says of the call `op` that counts in `unit` and in `bytes`, with
\* flat fee `flat` and price `price` for the payload: a system payload never
\* changes `bytes`; a call that returns Ok has added 1 to `unit`, the payload
\* length of a user payload to `bytes`, nothing to any other counter, and has
\* lowered the funds by the flat fee plus, for a user payload, the price; the
\* call returns Ok whenever the counters fit and the funds cover the fees.
PayloadRule(op, unit, bytes, flat, price) ==
    last.op = op =>
        LET user == last.m = 1
            fee == IF user THEN flat + price ELSE flat
            fits == /\ prev.t[unit] + 1 <= CounterMax[unit]
                    /\ user => /\ prev.t[bytes] + last.n <= CounterMax[bytes]
                               /\ price # Overflow
        IN  /\ ~user => tracker[bytes] = prev.t[bytes]
            /\ last.res = "Ok" =>
                  /\ tracker[unit] = prev.t[unit] + 1
                  /\ user => tracker[bytes] = prev.t[bytes] + last.n
                  /\ \A f \in CounterNames \ {unit, bytes} :
                        tracker[f] = prev.t[f]
                  /\ Funds = SumSeq(prev.a) - fee
            /\ (fits /\ SumSeq(prev.a) >= fee) => last.res = "Ok"

\* C19: track_operation adds 1 to operations and debits the flat operation
\* fee; for a user operation it also adds the payload length to
\* operation_bytes and debits the price of that many operation bytes; for a
\* system operation operation_bytes is unchanged and only the flat fee is
\* debited.  track_message does the same with messages, message_bytes and the
\* message fees.
C19_OperationAndMessageAccounting ==
    /\ PayloadRule("track_operation", "operations", "operation_bytes",
                   policy.operation, operation_bytes_price(policy, last.n))
    /\ PayloadRule("track_message", "messages", "message_bytes",
                   policy.message, message_bytes_price(policy, last.n))

\* C19 witness: a user message of two bytes, counted and charged the flat fee
\* and the price of two bytes.
C19_Witness ==
    /\ last.op = "track_message"
    /\ last.m = 1
    /\ last.n = 2
    /\ last.res = "Ok"
    /\ policy.message > 0
    /\ message_bytes_price(policy, 2) > 0
    /\ tracker.messages = prev.t.messages + 1
    /\ tracker.message_bytes = prev.t.message_bytes + 2
    /\ Funds = SumSeq(prev.a) - policy.message - message_bytes_price(policy, 2)

\* C19 witness of the system case: a system operation charged the flat fee
\* only.
C19_SystemWitness ==
    /\ last.op = "track_operation"
    /\ last.m = 0
    /\ last.res = "Ok"
    /\ policy.operation > 0
    /\ policy.operation_byte > 0
    /\ tracker.operations = prev.t.operations + 1
    /\ tracker.operation_bytes = prev.t.operation_bytes
    /\ Funds = SumSeq(prev.a) - policy.operation

\* The runtime reads of a value of fixed size, and the size in bytes C20 gives
\* for each.
FixedRuntimeSize ==
    [ track_runtime_chain_id |-> 32, track_runtime_block_height |-> 8,
      track_runtime_application_id |-> 32, track_runtime_timestamp |-> 8,
      track_runtime_balance |-> 16 ]

\* C20: each runtime read of a value of fixed size adds the size of the value
\* (32 for a chain id, 8 for a block height, 32 for an application id, 8 for a
\* timestamp, 16 for a balance) to bytes_runtime and debits the runtime price
\* of that many bytes; no other counter changes.
C20_FixedRuntimeReads ==
    last.op \in DOMAIN FixedRuntimeSize =>
        LET size == FixedRuntimeSize[last.op]
            price == bytes_runtime_price(policy, size)
            fits == prev.t.bytes_runtime + size <= U32Max
        IN  /\ last.n = size
            /\ \A f \in CounterNames \ {"bytes_runtime"} : tracker[f] = prev.t[f]
            /\ tracker.bytes_runtime
                  = IF fits THEN prev.t.bytes_runtime + size
                            ELSE prev.t.bytes_runtime
            /\ last.res = "Ok" =>
                  /\ fits
                  /\ Funds = SumSeq(prev.a) - price
            /\ last.res = "FeesExceedFunding" => last.fees = price
            /\ (fits /\ price # Overflow /\ SumSeq(prev.a) >= price) =>
                  last.res = "Ok"

\* C20 witness: a balance read under a policy that charges runtime bytes: 16
\* bytes counted, the price of 16 bytes debited.
C20_Witness ==
    /\ last.op = "track_runtime_balance"
    /\ last.res = "Ok"
    /\ policy.byte_runtime > 0
    /\ tracker.bytes_runtime = prev.t.bytes_runtime + 16
    /\ Funds = SumSeq(prev.a) - bytes_runtime_price(policy, 16)
    /\ Funds < SumSeq(prev.a)

\* The capped counters, and whether a tracker has breached the cap of each:
\* the condition under which the operation on that counter refuses any
\* quantity.
CappedCounters ==
    {"wasm_fuel", "evm_fuel", "bytes_read", "bytes_written", "block_size",
     "service_oracle_execution"}

Breached(t, f) ==
    CASE f = "wasm_fuel" -> t.wasm_fuel > policy.maximum_wasm_fuel_per_block
      [] f = "evm_fuel" -> t.evm_fuel > policy.maximum_evm_fuel_per_block
      [] f = "bytes_read" -> t.bytes_read >= policy.maximum_bytes_read_per_block
      [] f = "bytes_written" ->
            t.bytes_written >= policy.maximum_bytes_written_per_block
      [] f = "block_size" -> t.block_size > policy.maximum_block_size
      [] f = "service_oracle_execution" ->
            t.service_oracle_execution >= OracleLimit

\* The capped counter the last call adds to, "" if it adds to none.
CappedCounterOf(l) ==
    CASE l.op = "track_fuel" -> FuelCounter(l.vm)
      [] l.op = "track_bytes_read" -> "bytes_read"
      [] l.op = "track_bytes_written" -> "bytes_written"
      [] l.op = "track_block_size" -> "block_size"
      [] l.op = "track_service_oracle_execution" -> "service_oracle_execution"
      [] OTHER -> ""

\* The error with which the last call reports the breach of its cap.
CapError(l) ==
    CASE l.op = "track_fuel" -> MaximumFuelExceeded(l.vm)
      [] l.op = "track_bytes_read" -> "ExcessiveRead"
      [] l.op = "track_bytes_written" -> "ExcessiveWrite"
      [] l.op = "track_block_size" -> "BlockTooLarge"
      [] l.op = "track_service_oracle_execution" -> OracleTimeExceeded
      [] OTHER -> ""

\* Whether the last call failed because its counter, after the addition, was
\* refused by the cap (BlockTooLarge also reports a sum that does not fit the
\* counter, which is no addition).
CapBreach ==
    /\ CappedCounterOf(last) # ""
    /\ last.res = CapError(last)
    /\ prev.t[CappedCounterOf(last)] + last.n <= CounterMax[CappedCounterOf(last)]

\* C21: cap failures latch.  A call that fails on the breach of its cap leaves
\* its counter breached; no call, of any operation, ends a breach; and a call
\* of the operation made while its counter is breached fails, whatever the
\* quantity.  Hence every call of the operation after a cap failure fails.
C21_CapFailuresLatch ==
    /\ CapBreach => Breached(tracker, CappedCounterOf(last))
    /\ \A f \in CappedCounters : Breached(prev.t, f) => Breached(tracker, f)
    /\ (/\ CappedCounterOf(last) # ""
        /\ Breached(prev.t, CappedCounterOf(last))) =>
          last.res \in {CapError(last), "Overflow"}

\* C21 witness: a write of zero bytes refused with ExcessiveWrite, on a
\* counter that only an earlier refused write can have brought to its cap.
C21_Witness ==
    /\ calls = 2
    /\ last.op = "track_bytes_written"
    /\ last.n = 0
    /\ last.res = "ExcessiveWrite"
    /\ Breached(prev.t, "bytes_written")
    /\ tracker.bytes_written = prev.t.bytes_written
    /\ Funds > 0

\* What remaining_fuel(vm) answered, or would have answered, before the last
\* call.
RemainingFuelBefore(vm) == remaining_fuel(policy, HolderKind, prev.t, prev.a, vm)

\* C22: in a state where vm's fuel counter is at most vm's maximum,
\* track_fuel(remaining_fuel(vm), vm) neither overflows the counter nor fails
\* with MaximumFuelExceeded: the counter ends at most at the maximum; where
\* the counter is above the maximum remaining_fuel(vm) is 0.  Stated of the
\* call in every state where the controller can be called, and of every
\* track_fuel call made with the fuel remaining_fuel answered.
C22_RemainingFuelIsAccepted ==
    /\ (kind = "Amount" \/ borrowed) =>
          \A vm \in VmRuntimes :
             LET f == remaining_fuel(policy, HolderKind, tracker, AcctList, vm)
                 c == track_fuel(policy, Cur, f, vm)
                 maximum == maximum_fuel_per_block(policy, vm)
             IN  IF fuel(tracker, vm) <= maximum
                 THEN /\ fuel(tracker, vm) + f <= maximum
                      /\ fuel(c.t, vm) = fuel(tracker, vm) + f
                      /\ c.res # MaximumFuelExceeded(vm)
                      /\ c.res # "Overflow"
                 ELSE f = 0
    /\ (/\ last.op = "track_fuel"
        /\ last.n = RemainingFuelBefore(last.vm)
        /\ fuel(prev.t, last.vm) <= maximum_fuel_per_block(policy, last.vm)) =>
          /\ last.res \in {"Ok", "FeesExceedFunding"}
          /\ fuel(tracker, last.vm) = fuel(prev.t, last.vm) + last.n
          /\ fuel(tracker, last.vm) <= maximum_fuel_per_block(policy, last.vm)
    /\ (/\ last.op = "remaining_fuel"
        /\ fuel(tracker, last.vm) > maximum_fuel_per_block(policy, last.vm)) =>
          last.ret = 0

\* C22 witness: track_fuel called with the positive fuel remaining_fuel
\* answered, under a policy with a maximum and a fuel price, accepted.
C22_Witness ==
    /\ last.op = "track_fuel"
    /\ last.n > 0
    /\ last.n = RemainingFuelBefore(last.vm)
    /\ last.n < U64Max
    /\ fuel_unit(policy, last.vm) > 0
    /\ last.res = "Ok"
    /\ fuel(tracker, last.vm) = fuel(prev.t, last.vm) + last.n

\* C22 witness of the second part: remaining_fuel asked with the counter above
\* the maximum, answering 0 although the balance buys fuel.
C22_ExhaustedWitness ==
    /\ last.op = "remaining_fuel"
    /\ fuel(tracker, last.vm) > maximum_fuel_per_block(policy, last.vm)
    /\ policy_remaining_fuel(policy, Min(Funds, AmountMax), last.vm) > 0
    /\ last.ret = 0

\* The counters a call adds to with a checked addition (the oracle execution
\* time is added with a saturating one).
CheckedCounters == CounterNames \ {"service_oracle_execution"}

\* The quantity the last call adds, or tries to add, to counter f: for the
\* runtime reads, the size as the u32 it is computed in.
Added(f) == IF last.op \in RuntimeOps THEN AsU32(last.n) ELSE last.q[f]

\* Whether the last call reached its checked addition to counter f and the
\* addition overflowed.
Overflowed(f) ==
    /\ f \in DOMAIN last.q
    /\ f \in CheckedCounters
    /\ Reached(f)
    /\ last.res # "Panic"
    /\ \/ prev.t[f] + Added(f) > CounterMax[f]
       \/ prev.t[f] + Added(f) < CounterMin(f)

\* The counter a call updates before counter f, "" if f is its first.
Earlier(f) ==
    CASE f = "operation_bytes" -> "operations"
      [] f = "message_bytes" -> "messages"
      [] f = "blobs_read" -> "blob_bytes_read"
      [] f = "blobs_published" -> "blob_bytes_published"
      [] OTHER -> ""

FeeBefore(f) ==
    CASE f = "operation_bytes" -> policy.operation
      [] f = "message_bytes" -> policy.message
      [] OTHER -> 0

C23_FlatFeeWitness ==
    /\ last.op = "track_operation"
    /\ last.res = "Overflow"
    /\ policy.operation > 0
    /\ tracker.operations = prev.t.operations + 1
    /\ tracker.operation_bytes = prev.t.operation_bytes
    /\ Funds = SumSeq(prev.a) - policy.operation

\* C24 as stated: on a controller whose account is a single Amount, a call
\* that fails for lack of funds leaves the balance as it was before the call;
\* on a Sources account it leaves every source at zero.
C24_FailedDebitLeavesAmountUnchanged ==
    last.res = "FeesExceedFunding" =>
        IF kind = "Amount"
        THEN account = prev.a[1]
        ELSE \A i \in 1..Len(AcctList) : AcctList[i] = 0

\* C24 amended: on a single Amount the debit that fails for lack of funds
\* changes nothing: the balance is what it was before the call, less the flat
\* fee when the call is a track_operation or track_message on a user payload
\* that paid its flat fee and failed at the fee for the bytes.  On a Sources
\* account the failed debit leaves every source at zero.
C24_FailedDebitLeavesAmountAsDebited ==
    last.res = "FeesExceedFunding" =>
        IF kind = "Amount"
        THEN /\ account = AvailableForDebit
             /\ account < FailedDebit
             /\ (last.op \notin {"track_operation", "track_message"}
                   \/ last.m = 0) => account = prev.a[1]
        ELSE \A i \in 1..Len(AcctList) : AcctList[i] = 0

\* C24 witness: a single Amount with funds, the same after a call that failed
\* for lack of funds.
C24_Witness ==
    /\ kind = "Amount"
    /\ last.res = "FeesExceedFunding"
    /\ prev.a[1] > 0
    /\ account = prev.a[1]
    /\ last.fees > account

\* C24 witness of the contrast: a Sources account with funds in two sources,
\* both at zero after a call that failed for lack of funds.
C24_SourcesWitness ==
    /\ kind = "Owner"
    /\ last.res = "FeesExceedFunding"
    /\ Len(prev.a) = 2
    /\ prev.a[1] > 0
    /\ prev.a[2] > 0
    /\ AcctList = <<0, 0>>

=============================================================================
